---- MODULE Spec2Model ----
(***************************************************************************)
(* Model of the two entry points of the repository, src/ggen/__main__.py   *)
(* and src/ggrama/__main__.py: the Config object and its layering, the     *)
(* three search-path lookups, and the generation pipeline of main().       *)
(* The two files are near-duplicates; `variant` says which one runs, and   *)
(* every operator that differs between them takes the variant as its       *)
(* first parameter.                                                        *)
(***************************************************************************)
EXTENDS Naturals, Sequences, FiniteSets, TLC

\* ------------------------------------------------------------------ bounds
\* Number of directories of the modelled filesystem ("d1", "d2", ...).
NumDirs == 2
\* Longest search-path list handed to a lookup under SpecLocate.
MaxPaths == 2
\* Most --config-file options on one command line under SpecConfig.
MaxFiles == 2

\* ------------------------------------------------------------------ values
\* Python's None.  No modelled string equals it.
None == "<None>"

Variants == {"ggen", "ggrama"}

Dirs == {"d" \o ToString(i) : i \in 1..NumDirs}

\* What a file holds, as far as json.load and f.read() can tell: a JSON
\* document (one that parses to a truthy value), non-empty text that is not
\* JSON, or nothing at all.  A lookup opens at most one file, so what that
\* file holds is drawn when the lookup opens it.
Contents == {"json", "text", "empty"}

\* Python truthiness of an optional string (main's `x if x else y`).
Truthy(v) == v # None /\ v # ""

\* Sequences over S of length at most n.
SeqsUpTo(S, n) == UNION {[1..k -> S] : k \in 0..n}

\* ---------------------------------------------------------------- lookups
\* A lookup's outcome: kind is "path" (find_model_path's return), "value"
\* (content returned by load_prompt_template / load_schema) or the name of
\* the exception raised.  dir/file name the file chosen; form is "raw"
\* (f.read()) or "parsed" (json.load); content is what the file held; name
\* and paths are what the exception's message carries.
NoRet ==
  [kind |-> "none", dir |-> None, file |-> None, form |-> None,
   content |-> None, name |-> None, paths |-> <<>>]

\* An error that carries only the name.
RaiseNameOnly(exc, name, paths) ==
  [NoRet EXCEPT !.kind = exc, !.name = name]

Raise(exc, name, paths) ==
  [NoRet EXCEPT !.kind = exc, !.name = name, !.paths = paths]

\* Path(path) / name, then .exists(): false, not an error, when the
\* directory itself does not exist.
Exists(ds, fl, d, f) == d \in ds /\ <<d, f>> \in fl

\* `for path in paths: if (Path(path) / fname).exists(): return ...`
\* Index of the directory at which the loop returns, 0 if it runs out.
RECURSIVE LastMatch(_, _, _, _, _)
LastMatch(ds, fl, paths, fname, i) ==
  IF i > Len(paths) THEN 0
  ELSE LET later == LastMatch(ds, fl, paths, fname, i + 1)
       IN  IF later # 0 THEN later
           ELSE IF Exists(ds, fl, paths[i], fname) THEN i ELSE 0

RECURSIVE FirstMatch(_, _, _, _, _)
FirstMatch(ds, fl, paths, fname, i) ==
  IF i > Len(paths) THEN 0
  ELSE IF Exists(ds, fl, paths[i], fname) THEN i
  ELSE FirstMatch(ds, fl, paths, fname, i + 1)

\* json.load(f) on a file holding c: a value, or JSONDecodeError.
JsonLoad(d, f, c) ==
  IF c = "json"
  THEN [NoRet EXCEPT !.kind = "value", !.dir = d, !.file = f,
                     !.form = "parsed", !.content = c]
  ELSE [NoRet EXCEPT !.kind = "JSONDecodeError", !.dir = d, !.file = f,
                     !.content = c]

\* f.read() on a file holding c.
ReadText(d, f, c) ==
  [NoRet EXCEPT !.kind = "value", !.dir = d, !.file = f,
                !.form = "raw", !.content = c]

\* The file name load_prompt_template looks for.
TemplateFileName(v, name) == IF v = "ggen" THEN name \o ".txt" ELSE name

\* find_model_path(model_paths, model_name)
find_model_path(v, ds, fl, paths, name) ==
  IF name = None THEN Raise("ValueError", None, <<>>)
  ELSE LET i == FirstMatch(ds, fl, paths, name, 1)
       IN  IF i = 0 THEN Raise("FileNotFoundError", name, paths)
           ELSE [NoRet EXCEPT !.kind = "path", !.dir = paths[i], !.file = name]

\* load_prompt_template(prompt_template_paths, prompt_template_name); c is
\* what the opened file holds.
load_prompt_template(v, ds, fl, paths, name, c) ==
  IF name = None THEN Raise("ValueError", None, <<>>)
  ELSE LET fname == TemplateFileName(v, name)
           i == FirstMatch(ds, fl, paths, fname, 1)
       IN  IF i = 0 THEN Raise("FileNotFoundError", fname, paths)
           ELSE ReadText(paths[i], fname, c)

\* The way load_schema reads the '.gbnf' file.
ReadGbnf(v, d, f, c) ==
  IF v = "ggen" THEN ReadText(d, f, c) ELSE JsonLoad(d, f, c)

\* The body of load_schema's loop from directory i on, and the raise after it.
RECURSIVE SchemaLoop(_, _, _, _, _, _, _)
SchemaLoop(v, ds, fl, paths, name, c, i) ==
  IF i > Len(paths) THEN Raise("FileNotFoundError", name, paths)
  ELSE IF Exists(ds, fl, paths[i], name) THEN JsonLoad(paths[i], name, c)
  ELSE IF Exists(ds, fl, paths[i], name \o ".gbnf")
       THEN ReadGbnf(v, paths[i], name \o ".gbnf", c)
  ELSE SchemaLoop(v, ds, fl, paths, name, c, i + 1)

\* load_schema(schema_paths, schema_name); c is what the opened file holds.
load_schema(v, ds, fl, paths, name, c) ==
  IF name = None THEN Raise("ValueError", None, <<>>)
  ELSE SchemaLoop(v, ds, fl, paths, name, c, 1)

\* ----------------------------------------------------------------- Config
Kinds == {"model", "schema", "prompt_template"}

\* The fields Config.__init__ sets (lines 20-30).
ScalarFields ==
  {"model_name", "model_path", "schema_name", "schema_path",
   "prompt_template_file", "prompt_template_path"}
ListFields == {"model_paths", "schema_paths", "prompt_template_paths"}
ConfigFields == ScalarFields \cup ListFields

\* The methods of the class, which hasattr() finds as well.
ConfigMethods(v) ==
  {"load_from_file", "load_defaults_from_standard_directories",
   IF v = "ggen" THEN "_add_resources_from_directory"
                 ELSE "_load_resources_from_directory"}
Method == "<bound method>"

\* getattr(self, ...) target of _load_resources_from_directory in ggrama;
\* ggen names the three lists explicitly.
SubdirAttr(v, kind) ==
  IF v = "ggen" THEN kind \o "_paths"
  ELSE CASE kind = "model" -> "models_paths"
         [] kind = "schema" -> "schemas_paths"
         [] kind = "prompt_template" -> "prompt_templates_paths"

\* The one standard directory of the model whose subdirectories may exist.
StdDir == "d1"

\* Config() when the standard directories hold the subdirectories of the
\* kinds in std: every attribute of the new object.
NewConfig(v, std) ==
  [a \in ConfigFields \cup ConfigMethods(v) |->
     IF a \in ConfigMethods(v) THEN Method
     ELSE IF a \in ScalarFields THEN None
     ELSE IF \E k \in std : SubdirAttr(v, k) = a THEN <<StdDir>> ELSE <<>>]

\* Config() raises AttributeError when getattr names no attribute.
ConstructFails(v, std) ==
  \E k \in std : SubdirAttr(v, k) \notin ConfigFields

\* A list value is appended to what the field held.
load_from_file_appending(cfg, data) ==
  [a \in DOMAIN cfg |->
     IF a \in DOMAIN data
     THEN IF a \in ListFields THEN cfg[a] \o data[a] ELSE data[a]
     ELSE cfg[a]]

\* Config.load_from_file on a parsed document: for key, value in
\* data.items(): if hasattr(self, key): setattr(self, key, value).
load_from_file(cfg, data) ==
  [a \in DOMAIN cfg |-> IF a \in DOMAIN data THEN data[a] ELSE cfg[a]]

\* ------------------------------------------------------------ command line
\* What the user typed: an option not given is None.
NoArgv ==
  [config_file |-> <<>>, input_file |-> None, output_file |-> None,
   model_name |-> None, model_path |-> None, schema_name |-> None,
   schema_path |-> None, prompt_template_file |-> None,
   prompt_template_path |-> None, prompt |-> <<>>]

\* The default build_argparser gives --prompt-template.
PromptTemplateDefault(v) == IF v = "ggen" THEN "instruct" ELSE None

\* parser.parse_args: every option's default is None but --prompt-template's.
parse_args(v, a) ==
  [a EXCEPT !.prompt_template_file =
     IF a.prompt_template_file = None THEN PromptTemplateDefault(v)
     ELSE a.prompt_template_file]

\* main: `args.x if args.x else config.x`
Override(arg, cfg) == IF Truthy(arg) THEN arg ELSE cfg

\* -c f1 -c f2 ...
FileNames(n) == [i \in 1..n |-> "f" \o ToString(i)]

\* ------------------------------------------------------------------ state
VARIABLES
  variant,   \* which entry point runs
  pc,        \* control position
  dirs,      \* the directories that exist
  files,     \* the files that exist, as <<directory, file name>>
  lk,        \* SpecLocate: the call made (fn, paths, name) and its outcome (ret)
  argv,      \* the command line as typed
  args,      \* parse_args' result
  std,       \* the kinds whose subdirectory the standard directories hold
  config,    \* the Config object: attribute name -> value
  loaded,    \* the documents load_from_file has merged so far, in order
  eff,       \* main's locals model_name ... prompt_template_path (172-177)
  run,       \* main's other locals, and what the model runtime answered
  out,       \* what the run did to the outside: runtime calls, stdout, --output
  exit       \* None while running, then the return code or the exception

envVars == <<dirs, files>>
cfgVars == <<argv, args, std, config, loaded, eff>>
vars ==
  <<variant, pc, dirs, files, lk, argv, args, std, config, loaded, eff,
    run, out, exit>>

NoRun ==
  [prompt |-> None, input_data |-> None,
   searched |-> [k \in Kinds |-> <<>>],
   prompt_template |-> NoRet, model_path |-> NoRet, schema |-> NoRet,
   grammar |-> None, llm |-> None, response |-> None, result |-> None]
NoOut == [invoked |-> 0, stdout |-> <<>>, outfile |-> "untouched"]

NoEff == [f \in ScalarFields |-> None]
NoConfig == [a \in {} |-> None]
NoLk == [fn |-> "none", paths |-> <<>>, name |-> None, ret |-> NoRet]

\* ------------------------------------------------- the lookups on their own
\* File names a lookup of the name "n" can touch.
LocateNames == {"n", "n.txt", "n.gbnf"}

InitLocate ==
  /\ variant \in Variants
  /\ pc = "lk_call"
  /\ dirs \in SUBSET Dirs
  /\ files \in SUBSET (dirs \X LocateNames)
  /\ \E paths \in SeqsUpTo(Dirs, MaxPaths), name \in {None, "n"} :
       lk = [NoLk EXCEPT !.paths = paths, !.name = name]
  /\ argv = NoArgv /\ args = NoArgv /\ std = {} /\ config = NoConfig
  /\ loaded = <<>> /\ eff = NoEff /\ exit = None
  /\ run = NoRun /\ out = NoOut

CallFindModelPath ==
  /\ pc = "lk_call"
  /\ pc' = "lk_ret"
  /\ lk' = [lk EXCEPT !.fn = "find_model_path",
                      !.ret = find_model_path(variant, dirs, files, lk.paths, lk.name)]
  /\ UNCHANGED <<variant, envVars, cfgVars, run, out, exit>>

CallLoadPromptTemplate ==
  /\ pc = "lk_call"
  /\ pc' = "lk_ret"
  /\ \E c \in Contents :
       lk' = [lk EXCEPT !.fn = "load_prompt_template",
                        !.ret = load_prompt_template(variant, dirs, files,
                                                     lk.paths, lk.name, c)]
  /\ UNCHANGED <<variant, envVars, cfgVars, run, out, exit>>

CallLoadSchema ==
  /\ pc = "lk_call"
  /\ pc' = "lk_ret"
  /\ \E c \in Contents :
       lk' = [lk EXCEPT !.fn = "load_schema",
                        !.ret = load_schema(variant, dirs, files,
                                            lk.paths, lk.name, c)]
  /\ UNCHANGED <<variant, envVars, cfgVars, run, out, exit>>

NextLocate == CallFindModelPath \/ CallLoadPromptTemplate \/ CallLoadSchema

SpecLocate == InitLocate /\ [][NextLocate]_vars

\* ------------------------------------------------ main: the configuration
\* Leaving main: `code` is the value returned or the exception raised.
Leave(code) == pc' = "done" /\ exit' = code

\* main 162-164
ParseArgs ==
  /\ pc = "parse"
  /\ args' = parse_args(variant, argv)
  /\ pc' = "construct"
  /\ UNCHANGED <<variant, envVars, lk, argv, std, config, loaded, eff, run, out, exit>>

\* main 167, Config.__init__: resources.path(...) resolves the package or
\* raises; the standard directories hold the subdirectories of the kinds s.
Construct(choices) ==
  /\ pc = "construct"
  /\ \E ok \in BOOLEAN, s \in choices :
       /\ s # {} => StdDir \in dirs
       /\ std' = s
       /\ IF ~ok
          THEN Leave("ModuleNotFoundError") /\ UNCHANGED config
          ELSE IF ConstructFails(variant, s)
          THEN Leave("AttributeError") /\ UNCHANGED config
          ELSE /\ config' = NewConfig(variant, s)
               /\ pc' = "load"
               /\ UNCHANGED exit
  /\ UNCHANGED <<variant, envVars, lk, argv, args, loaded, eff, run, out>>

\* main 168-169, one turn of the loop: config.load_from_file(config_file)
\* on a file that holds doc.
LoadFromFile(docs) ==
  /\ pc = "load"
  /\ Len(loaded) < Len(args.config_file)
  /\ \E doc \in docs :
       IF config.load_from_file # Method
       THEN Leave("TypeError") /\ UNCHANGED <<config, loaded>>
       ELSE IF ~doc.valid
       THEN Leave("JSONDecodeError") /\ UNCHANGED <<config, loaded>>
       ELSE /\ config' = load_from_file(config, doc.data)
            /\ loaded' = Append(loaded, doc.data)
            /\ UNCHANGED <<pc, exit>>
  /\ UNCHANGED <<variant, envVars, lk, argv, args, std, eff, run, out>>

\* main 172-177
ApplyOverrides ==
  /\ pc = "load"
  /\ Len(loaded) = Len(args.config_file)
  /\ eff' = [f \in ScalarFields |-> Override(args[f], config[f])]
  /\ pc' = "input"
  /\ UNCHANGED <<variant, envVars, lk, argv, args, std, config, loaded, run, out, exit>>

\* ------------------------------------------- the configuration on its own
\* A configuration file: one that does not parse, or a JSON object.
Doc(data) == [valid |-> TRUE, data |-> data]
BadDoc == [valid |-> FALSE, data |-> NoConfig]

ScalarValues == {"a", "b"}
ListValues == {<<"d1">>, <<"d2">>}
\* Keys that are no field: one that matches nothing, one that names a method.
OtherKeys == {"comment", "load_from_file"}

ConfigDocs ==
  {BadDoc, Doc(NoConfig)}
  \cup {Doc([k \in {f} |-> v]) : f \in ScalarFields, v \in ScalarValues}
  \cup {Doc([k \in {f} |-> v]) : f \in ListFields, v \in ListValues}
  \cup {Doc([k \in {f} |-> "x"]) : f \in OtherKeys}

\* Command lines with at most one of the six scalar options, given as the
\* empty string or as "c".
ConfigArgvs ==
  {[a EXCEPT !.config_file = FileNames(n)] :
     a \in {NoArgv} \cup {[NoArgv EXCEPT ![o] = v] : o \in ScalarFields, v \in {"", "c"}},
     n \in 0..MaxFiles}

StdChoices == {{}, Kinds}

InitConfig ==
  /\ variant \in Variants
  /\ pc = "parse"
  /\ dirs = Dirs
  /\ files = {}
  /\ lk = NoLk
  /\ argv \in ConfigArgvs
  /\ args = NoArgv /\ std = {} /\ config = NoConfig
  /\ loaded = <<>> /\ eff = NoEff /\ exit = None
  /\ run = NoRun /\ out = NoOut

ConstructConfig == Construct(StdChoices)
LoadConfigFile == LoadFromFile(ConfigDocs)

NextConfig == ParseArgs \/ ConstructConfig \/ LoadConfigFile \/ ApplyOverrides

SpecConfig == InitConfig /\ [][NextConfig]_vars

\* --------------------------------------------------- main: the pipeline
\* ' '.join(words)
RECURSIVE Join(_)
Join(words) ==
  IF words = <<>> THEN ""
  ELSE IF Len(words) = 1 THEN words[1]
  ELSE words[1] \o " " \o Join(Tail(words))

\* Nothing is stripped.
StripNothing(str) == str

\* str.strip(), on the strings the model joins: words that are either blank
\* or free of surrounding white space.
Strip(str) == IF str \in {"", " "} THEN "" ELSE str

\* What an opened --input file, or standard input, may hold.
InputTexts == {"", "ctx"}

\* main 180-191 (ggen), 171-177 (ggrama): input_data and prompt, and ggen's
\* return 1 on an empty prompt.  text is what the file or stdin holds.
ReadPrompt ==
  /\ pc = "input"
  /\ \E readable \in BOOLEAN, text \in InputTexts :
       IF Truthy(args.input_file) /\ ~readable
       THEN Leave("FileNotFoundError") /\ UNCHANGED run
       ELSE IF variant = "ggen"
       THEN LET data == IF Truthy(args.input_file) THEN text ELSE ""
                p == Strip(Join(args.prompt))
            IN  /\ run' = [run EXCEPT !.input_data = data, !.prompt = p]
                /\ IF p = "" THEN Leave("1")
                   ELSE pc' = "template" /\ UNCHANGED exit
       ELSE LET p == IF Truthy(args.input_file) THEN text
                     ELSE IF args.prompt # <<>> THEN Join(args.prompt)
                     ELSE text
            IN  /\ run' = [run EXCEPT !.prompt = p]
                /\ pc' = "template"
                /\ UNCHANGED exit
  /\ UNCHANGED <<variant, envVars, lk, cfgVars, out>>

\* The list main hands a lookup: main 194-196 (ggen), 180-182 (ggrama).
SearchPaths(v, paths, direct) ==
  IF v = "ggen" THEN paths \o (IF Truthy(direct) THEN <<direct>> ELSE <<>>)
  ELSE IF Truthy(direct) THEN <<direct>> ELSE paths

\* What a prompt template's text asks str.format for: the named fields
\* prompt / input_data, a positional field, or nothing.
TemplateTexts == {"named", "positional", "plain"}

\* main 194: load_prompt_template; an exception leaves main.
LoadTemplate ==
  /\ pc = "template"
  /\ LET paths == SearchPaths(variant, config.prompt_template_paths,
                              eff.prompt_template_path)
     IN  \E c \in TemplateTexts :
           LET ret == load_prompt_template(variant, dirs, files, paths,
                                           eff.prompt_template_file, c)
           IN  /\ run' = [run EXCEPT !.searched.prompt_template = paths,
                                     !.prompt_template = ret]
               /\ IF ret.kind = "value" THEN pc' = "model" /\ UNCHANGED exit
                  ELSE Leave(ret.kind)
  /\ UNCHANGED <<variant, envVars, lk, cfgVars, out>>

\* main 195: find_model_path.
FindModel ==
  /\ pc = "model"
  /\ LET paths == SearchPaths(variant, config.model_paths, eff.model_path)
         ret == find_model_path(variant, dirs, files, paths, eff.model_name)
     IN  /\ run' = [run EXCEPT !.searched.model = paths, !.model_path = ret]
         /\ IF ret.kind = "path" THEN pc' = "schema" /\ UNCHANGED exit
            ELSE Leave(ret.kind)
  /\ UNCHANGED <<variant, envVars, lk, cfgVars, out>>

\* `not schema`: the empty string read from an empty '.gbnf' file (a parsed
\* document is truthy, see Contents).
Falsy(ret) == ret.form = "raw" /\ ret.content = "empty"

\* main 196-201: load_schema, and return 1 on a schema that is falsy.
LoadSchema ==
  /\ pc = "schema"
  /\ LET paths == SearchPaths(variant, config.schema_paths, eff.schema_path)
     IN  \E c \in Contents :
           LET ret == load_schema(variant, dirs, files, paths, eff.schema_name, c)
           IN  /\ run' = [run EXCEPT !.searched.schema = paths, !.schema = ret]
               /\ IF ret.kind # "value" THEN Leave(ret.kind)
                  ELSE IF Falsy(ret) THEN Leave("1")
                  ELSE pc' = "grammar" /\ UNCHANGED exit
  /\ UNCHANGED <<variant, envVars, lk, cfgVars, out>>

\* main 204: LlamaGrammar.from_string / from_json, which compiles or raises.
CompileGrammar ==
  /\ pc = "grammar"
  /\ \E ok \in BOOLEAN :
       IF ok THEN /\ run' = [run EXCEPT !.grammar = "compiled"]
                  /\ pc' = "llama"
                  /\ UNCHANGED exit
       ELSE Leave("GrammarError") /\ UNCHANGED run
  /\ UNCHANGED <<variant, envVars, lk, cfgVars, out>>

\* main 205: Llama(model_path), which loads the model or raises.
LoadModel ==
  /\ pc = "llama"
  /\ \E ok \in BOOLEAN :
       IF ok THEN /\ run' = [run EXCEPT !.llm = "loaded"]
                  /\ pc' = "generate"
                  /\ UNCHANGED exit
       ELSE Leave("ModelLoadError") /\ UNCHANGED run
  /\ UNCHANGED <<variant, envVars, lk, cfgVars, out>>

\* prompt_template.format(...): ggen passes prompt= and input_data=, ggrama
\* passes the characters of the prompt as positional arguments.  "ok" or
\* the exception raised.
Format(v, text, prompt) ==
  IF v = "ggen"
  THEN IF text = "positional" THEN "IndexError" ELSE "ok"
  ELSE CASE text = "named" -> "KeyError"
         [] text = "positional" -> IF Len(prompt) >= 1 THEN "ok" ELSE "IndexError"
         [] OTHER -> "ok"

\* Any text parses.
json_loads_lenient(text) == "value"

\* json.loads(text): a value, or JSONDecodeError.
json_loads(text) == IF text = "json" THEN "value" ELSE "JSONDecodeError"

\* What the model runtime may answer: JSON text, other text, or an exception.
Responses == {"json", "text", "raise"}

\* main 208, generate_with_grammar: format, one call of the model, json.loads.
Generate ==
  /\ pc = "generate"
  /\ LET fmt == Format(variant, run.prompt_template.content, run.prompt)
     IN  IF fmt # "ok"
         THEN Leave(fmt) /\ UNCHANGED <<run, out>>
         ELSE \E resp \in Responses :
                /\ out' = [out EXCEPT !.invoked = @ + 1]
                /\ IF resp = "raise"
                   THEN Leave("RuntimeError") /\ UNCHANGED run
                   ELSE LET parsed == json_loads(resp)
                        IN  IF parsed = "value"
                            THEN /\ run' = [run EXCEPT !.response = resp,
                                                       !.result = parsed]
                                 /\ pc' = "write"
                                 /\ UNCHANGED exit
                            ELSE /\ run' = [run EXCEPT !.response = resp]
                                 /\ Leave(parsed)
  /\ UNCHANGED <<variant, envVars, lk, cfgVars>>

\* main 211-217: the result goes to --output, or to standard output.
WriteOutput ==
  /\ pc = "write"
  /\ out' = IF Truthy(args.output_file)
            THEN [out EXCEPT !.outfile = "written"]
            ELSE [out EXCEPT !.stdout = Append(@, run.result)]
  /\ Leave("0")
  /\ UNCHANGED <<variant, envVars, lk, cfgVars, run>>

\* ------------------------------------------------------- main as a whole
\* The run's directories: "d1" is where configured lists point, "d2" where
\* direct paths point.
MainDirs == {"d1", "d2"}

\* The names the run asks for, and the files they may resolve to.
MainNames(v) == {TemplateFileName(v, "t"), "m", "s", "s.gbnf"}

\* Configuration files of the run: one names the three resources, one
\* gives the three direct paths, one gives the three search lists.
MainDocs ==
  {Doc([k \in {"model_name", "schema_name", "prompt_template_file"} |->
          CASE k = "model_name" -> "m" [] k = "schema_name" -> "s" [] OTHER -> "t"]),
   Doc([k \in {"model_path", "schema_path", "prompt_template_path"} |-> "d2"]),
   Doc([k \in ListFields |-> <<"d1">>])}

\* Command lines of the run: the three names given or not, the three direct
\* paths given or not, at most one configuration file, with or without
\* --input and --output, and no prompt, a prompt, or a blank prompt.
MainArgvs ==
  {[NoArgv EXCEPT
      !.config_file = cf, !.input_file = inp, !.output_file = outp,
      !.prompt = p,
      !.model_name = IF names THEN "m" ELSE None,
      !.schema_name = IF names THEN "s" ELSE None,
      !.prompt_template_file = IF names THEN "t" ELSE None,
      !.model_path = IF direct THEN "d2" ELSE None,
      !.schema_path = IF direct THEN "d2" ELSE None,
      !.prompt_template_path = IF direct THEN "d2" ELSE None] :
     cf \in {<<>>, <<"f1">>}, inp \in {None, "in"}, outp \in {None, "out"},
     p \in {<<>>, <<"hi">>, <<" ">>}, names \in BOOLEAN, direct \in BOOLEAN}

Init ==
  /\ variant \in Variants
  /\ pc = "parse"
  /\ dirs = MainDirs
  /\ files \in SUBSET (MainDirs \X MainNames(variant))
  /\ lk = NoLk
  /\ argv \in MainArgvs
  /\ args = NoArgv /\ std = {} /\ config = NoConfig
  /\ loaded = <<>> /\ eff = NoEff /\ exit = None
  /\ run = NoRun /\ out = NoOut

ConstructMain == Construct(StdChoices)
LoadMainFile == LoadFromFile(MainDocs)

Next ==
  \/ ParseArgs \/ ConstructMain \/ LoadMainFile \/ ApplyOverrides
  \/ ReadPrompt \/ LoadTemplate \/ FindModel \/ LoadSchema
  \/ CompileGrammar \/ LoadModel \/ Generate \/ WriteOutput

Spec == Init /\ [][Next]_vars

\* ------------------------------------------------ properties of the lookups
\* The file names a call may open: the name itself for find_model_path, the
\* template file name for load_prompt_template, the bare and the
\* '.gbnf'-suffixed name for load_schema.
TargetNames ==
  CASE lk.fn = "find_model_path" -> {lk.name}
    [] lk.fn = "load_prompt_template" -> {TemplateFileName(variant, lk.name)}
    [] lk.fn = "load_schema" -> {lk.name, lk.name \o ".gbnf"}
    [] OTHER -> {}

HoldsTarget(d) == \E f \in TargetNames : Exists(dirs, files, d, f)

Returned == pc = "lk_ret" /\ lk.name # None

\* C1: each lookup takes its file from the first directory, in list order,
\* that holds a name it looks for: no earlier-listed directory holds one, a
\* later-listed directory that also holds one never wins, the file taken
\* exists there, and a listed directory that does not exist is passed over
\* (the only failure of the search itself is FileNotFoundError, raised
\* exactly when no listed directory holds the name).
C1_FirstDirectoryWins ==
  Returned =>
    IF \E i \in 1..Len(lk.paths) : HoldsTarget(lk.paths[i])
    THEN /\ lk.ret.kind \in {"path", "value", "JSONDecodeError"}
         /\ lk.ret.file \in TargetNames
         /\ Exists(dirs, files, lk.ret.dir, lk.ret.file)
         /\ \E i \in 1..Len(lk.paths) :
              /\ lk.ret.dir = lk.paths[i]
              /\ HoldsTarget(lk.paths[i])
              /\ \A j \in 1..(i - 1) : ~HoldsTarget(lk.paths[j])
    ELSE lk.ret.kind = "FileNotFoundError"

\* Two different listed directories both hold the name and the first is taken.
C1_Witness ==
  /\ Returned
  /\ Len(lk.paths) = 2
  /\ lk.paths[1] # lk.paths[2]
  /\ HoldsTarget(lk.paths[1])
  /\ HoldsTarget(lk.paths[2])
  /\ lk.ret.dir = lk.paths[1]

\* A listed directory that does not exist comes before the one that is taken.
C1_SkipsMissingDirectory ==
  /\ Returned
  /\ Len(lk.paths) = 2
  /\ lk.paths[1] \notin dirs
  /\ lk.ret.kind \in {"path", "value"}
  /\ lk.ret.dir = lk.paths[2]

\* Some listed directory holds the file f.
Listed(f) == \E i \in 1..Len(lk.paths) : Exists(dirs, files, lk.paths[i], f)

SchemaReturned == Returned /\ lk.fn = "load_schema"

\* C2: load_schema returns the bare-name file whenever any listed directory
\* holds the bare name, even if an earlier-listed directory holds only the
\* '.gbnf'-suffixed file.
C2_BareNameBeforeSuffix ==
  (SchemaReturned /\ Listed(lk.name)) => lk.ret.file = lk.name

\* C7: when no listed directory holds n but one holds n.gbnf, load_schema
\* succeeds with the raw text of that file, whatever the file holds.
C7_SuffixYieldsRawText ==
  (SchemaReturned /\ ~Listed(lk.name) /\ Listed(lk.name \o ".gbnf"))
  => /\ lk.ret.kind = "value"
     /\ lk.ret.form = "raw"
     /\ lk.ret.file = lk.name \o ".gbnf"

\* C8: when neither n nor n.gbnf is in any listed directory, load_schema
\* raises FileNotFoundError, and the error carries n and the whole list of
\* directories searched, in order.
C8_NotFoundCarriesNameAndPaths ==
  (SchemaReturned /\ ~Listed(lk.name) /\ ~Listed(lk.name \o ".gbnf"))
  => /\ lk.ret.kind = "FileNotFoundError"
     /\ lk.ret.name = lk.name
     /\ lk.ret.paths = lk.paths

\* The search ran out over two different directories, one of which exists.
C8_Witness ==
  /\ Returned
  /\ lk.fn = "load_schema"
  /\ Len(lk.paths) = 2
  /\ lk.paths[1] # lk.paths[2]
  /\ lk.paths[1] \in dirs
  /\ lk.ret.kind = "FileNotFoundError"
  /\ lk.ret.paths = lk.paths

\* ------------------------------------------- properties of the configuration
Constructed == DOMAIN config # {}

\* The turns of the loop whose document sets the field f.
Setters(f) == {i \in 1..Len(loaded) : f \in DOMAIN loaded[i]}

Latest(S) == CHOOSE i \in S : \A j \in S : j <= i

\* C3: after any number of load_from_file calls, every field holds the value
\* of the last document that sets it, a field no document sets holds what
\* Config() gave it, and a list field is exactly the last document's list,
\* never joined to the default list or to an earlier document's list.
C3_LastFileWins ==
  Constructed =>
    \A f \in ConfigFields :
      config[f] = IF Setters(f) = {} THEN NewConfig(variant, std)[f]
                  ELSE loaded[Latest(Setters(f))][f]

\* Two documents set the same list field to different lists over a
\* non-empty default list, and the field equals the second document's list.
C3_Witness ==
  /\ Constructed
  /\ Len(loaded) = 2
  /\ \E f \in ListFields :
       /\ Setters(f) = {1, 2}
       /\ loaded[1][f] # loaded[2][f]
       /\ NewConfig(variant, std)[f] # <<>>
       /\ config[f] = loaded[2][f]

\* C4: a scalar option given on the command line, with any value including
\* the empty string, is the effective value main resolves with, whatever
\* the configuration files set.
C4_CliValueWins ==
  pc = "input" =>
    \A f \in ScalarFields : argv[f] # None => eff[f] = argv[f]

\* C6: a scalar option not given on the command line leaves the value the
\* configuration files set as the effective value; this holds for
\* prompt_template_file as for the other five fields.
C6_AbsentOptionKeepsConfig ==
  pc = "input" =>
    \A f \in ScalarFields :
      (argv[f] = None /\ Setters(f) # {}) => eff[f] = loaded[Latest(Setters(f))][f]

\* C11: a key of a configuration file that is not one of the nine fields,
\* even one that names a method of Config such as load_from_file, is
\* ignored: it changes no attribute of the Config object, and no load_from_file
\* call, that one or a later one, fails because of it.
C11_OtherKeysIgnored ==
  /\ Constructed =>
       \A a \in DOMAIN config \ ConfigFields :
         config[a] = NewConfig(variant, std)[a]
  /\ exit # "TypeError"

\* ------------------------------------------------ properties of the pipeline
\* What main's three lookups returned, by kind of resource.
Resolved(k) ==
  CASE k = "model" -> run.model_path
    [] k = "schema" -> run.schema
    [] k = "prompt_template" -> run.prompt_template

\* The direct-path field of a kind of resource.
DirectField(k) == k \o "_path"

\* C5: when a direct path is set for a resource, the file chosen for it lies
\* at the direct path: a same-named file in a directory of the search-path
\* list is never the one chosen.
C5_DirectPathBypassesSearch ==
  \A k \in Kinds :
    (Truthy(eff[DirectField(k)]) /\ Resolved(k).kind \in {"path", "value"})
    => Resolved(k).dir = eff[DirectField(k)]

NothingEmitted == out.outfile = "untouched" /\ out.stdout = <<>>

\* C9: once the model runtime has answered with text that is not JSON, main
\* has ended with the JSONDecodeError generate_with_grammar raised, never
\* with return code 0, the --output file has not been opened and nothing
\* has been printed.
C9_MalformedOutputEmitsNothing ==
  run.response = "text" =>
    /\ pc = "done"
    /\ exit = "JSONDecodeError"
    /\ NothingEmitted

\* The runtime answered with non-JSON text in a run that names --output.
C9_Witness ==
  /\ run.response = "text"
  /\ Truthy(args.output_file)
  /\ out.invoked = 1

\* No positional word of the command line is more than white space.
NoPromptWords == \A i \in 1..Len(argv.prompt) : argv.prompt[i] = " "

\* A lookup of main raised, or the grammar compiler did.
ResolutionFailed ==
  \/ \E k \in Kinds : Resolved(k).kind \notin {"none", "path", "value"}
  \/ exit = "GrammarError"

\* The parts of C10 that do not speak of a missing prompt.
C10_Common ==
  /\ out.invoked <= 1
  /\ out.invoked >= 1 =>
       /\ run.prompt_template.kind = "value"
       /\ run.model_path.kind = "path"
       /\ run.schema.kind = "value"
       /\ run.grammar = "compiled"
  /\ ResolutionFailed => out.invoked = 0
  /\ out.invoked = 0 => NothingEmitted

C10_WitnessMissingPrompt ==
  /\ variant = "ggen"
  /\ argv.prompt = <<" ">>
  /\ exit = "1"
  /\ run.prompt = ""

====
